---- MODULE Spec2Model ----
(***************************************************************************)
(* A model of src/lib.rs: the RpcBuilder (query and subscription           *)
(* registration and the adapters they install), the Router (handler        *)
(* accumulation and get_type) and the runtime behaviour of the adapters.   *)
(*                                                                         *)
(* Text is modelled as a sequence of one-character strings, so that        *)
(* format!, join and trim_end_matches are computed character by character. *)
(***************************************************************************)
EXTENDS Integers, Sequences, FiniteSets, TLC

(***************************************************************************)
(* Bounds of the model.                                                    *)
(***************************************************************************)
MaxHandlers == 3
MaxSessions == 2
MaxStream == 2
MaxCalls == 2

Sessions == 1..MaxSessions
Calls == 1..MaxCalls

\* tokio::sync::mpsc::channel(10)
ChannelCapacity == 10

\* the serde_json::Value's of the model
JsonValues == {"null", "1", "2"}

\* the streams a subscription handler may return
Streams == UNION {[1..n -> JsonValues \ {"null"}] : n \in 0..MaxStream}

None == "None"

(***************************************************************************)
(* Text helpers.                                                           *)
(***************************************************************************)
RECURSIVE Join(_, _)
\* [String]::join(sep)
Join(parts, sep) ==
    IF Len(parts) = 0 THEN <<>>
    ELSE IF Len(parts) = 1 THEN parts[1]
    ELSE parts[1] \o sep \o Join(Tail(parts), sep)

EndsWith(s, suffix) ==
    /\ Len(s) >= Len(suffix)
    /\ SubSeq(s, Len(s) - Len(suffix) + 1, Len(s)) = suffix

RECURSIVE trim_end_matches(_, _)
\* str::trim_end_matches(pat): removes the suffix pat repeatedly
trim_end_matches(s, pat) ==
    IF Len(pat) > 0 /\ EndsWith(s, pat)
    THEN trim_end_matches(SubSeq(s, 1, Len(s) - Len(pat)), pat)
    ELSE s

RECURSIVE Flatten(_)
\* Iterator::flatten over a sequence of sequences
Flatten(ss) ==
    IF Len(ss) = 0 THEN <<>> ELSE ss[1] \o Flatten(Tail(ss))

Range(s) == {s[i] : i \in 1..Len(s)}

\* an iteration that may yield an element twice and miss another
IterationOrders_repeating(S) == [1..Cardinality(S) -> S]

\* The orders in which a HashSet's iterator may yield its elements: the
\* iteration order is unspecified, so every enumeration without repetition.
IterationOrders(S) ==
    {o \in [1..Cardinality(S) -> S] : Range(o) = S}

(***************************************************************************)
(* The handler types of the model: the implementations of trait Handler    *)
(* that a program may pass to Router::handler.  get_type is the descriptor *)
(* (HandlerType), register the procedures the handler adds to the          *)
(* RpcBuilder.                                                             *)
(***************************************************************************)
Dependency(ts_name, exported_to) ==
    [ts_name |-> ts_name, exported_to |-> exported_to]

DepT_ats == Dependency(<<"T">>, <<"a", ".", "t", "s">>)
DepU_ats == Dependency(<<"U">>, <<"a", ".", "t", "s">>)
DepT_a   == Dependency(<<"T">>, <<"a">>)

HandlerType(name, signature, dependencies) ==
    [name |-> name, signature |-> signature, dependencies |-> dependencies]

QueryReg(name) == [kind |-> "query", name |-> name]

SubscriptionReg(name, notification_name, unsubscribe_name) ==
    [kind |-> "subscription", name |-> name,
     notification_name |-> notification_name,
     unsubscribe_name |-> unsubscribe_name]

Handlers == {"h1", "h2", "h3", "h4", "sample_handler", "another_handler"}

\* the names and signatures of test::sample_handler and test::another_handler
sample_handler_name ==
    <<"s", "a", "m", "p", "l", "e", "_", "h", "a", "n", "d", "l", "e", "r">>
another_handler_name ==
    <<"a", "n", "o", "t", "h", "e", "r", "_", "h", "a", "n", "d", "l", "e", "r">>
signature_void == <<"(", ")", " ", "=", ">", " ", "v", "o", "i", "d">>
signature_number ==
    <<"(", ")", " ", "=", ">", " ", "n", "u", "m", "b", "e", "r">>

\* Handler::get_type of each handler type
HandlerGetType(h) ==
    CASE h = "h1" -> HandlerType(<<"f">>, <<"v">>, <<>>)
      [] h = "h2" -> HandlerType(<<"g">>, <<"n">>, <<DepT_ats>>)
      [] h = "h3" -> HandlerType(<<"k">>, <<"v">>, <<DepT_ats, DepU_ats>>)
      [] h = "h4" -> HandlerType(<<"s">>, <<"n">>, <<DepT_a>>)
      [] h = "sample_handler" -> HandlerType(sample_handler_name, signature_void, <<>>)
      [] h = "another_handler" -> HandlerType(another_handler_name, signature_number, <<>>)

\* Handler::register of each handler type: the registration it performs
\* (the register of test::sample_handler and test::another_handler is todo!();
\* here they register the query of their name, as a usable handler does)
HandlerRegistration(h) ==
    CASE h = "h1" -> QueryReg("f")
      [] h = "h2" -> SubscriptionReg("g", "f", "u")
      [] h = "h3" -> QueryReg("k")
      [] h = "h4" -> SubscriptionReg("s", "m", "f")
      [] h = "sample_handler" -> QueryReg("sample_handler")
      [] h = "another_handler" -> QueryReg("another_handler")

Namespaces == {None, <<"n", "s">>}

VARIABLES
    name,         \* Router.name: None or the namespace
    handlers,     \* Router.handlers: the recorded Handler::get_type providers
    methods,      \* Router.rpc_builder: the method names registered in the RpcModule
    notifs,       \* the notification names of the registered subscriptions
    build,        \* "ok" while the router exists, "panicked" once a call unwound
    calls,        \* history: the handler types of the Router::handler calls that returned
    out,          \* the text Router::get_type returned for the current router, or None
    previous      \* the text the get_type call before that one returned for it, or None

routerVars == <<name, handlers, methods, notifs, build, calls, out, previous>>

VARIABLES
    callback,     \* per session: where the subscription callback's future stands
    task,         \* per session: where the spawned delivery task stands
    stream,       \* per session: the values the handler's stream yields for this call
    taken,        \* per session: how many values for_each has taken from the stream
    channel,      \* per session: the values held in the mpsc channel
    tx,           \* per session: the Sender is alive
    rx,           \* per session: the Receiver is alive
    value,        \* per session: the value the delivery task holds while sending, or None
    sent,         \* per session: the values the subscription sink has received
    sink_open     \* per session: the transport side of the subscription is open

sessionVars ==
    <<callback, task, stream, taken, channel, tx, rx, value, sent, sink_open>>

VARIABLES
    query,        \* per call: "idle", "awaiting" the handler's future, or "responded"
    procedure,    \* per call: the handler function of the called procedure
    params,       \* per call: the call's parameters
    result,       \* per call: the value the handler's future produced, or None
    response      \* per call: the value the adapter's future returned, or None

queryVars == <<query, procedure, params, result, response>>

vars == <<routerVars, sessionVars, queryVars>>

(***************************************************************************)
(* RpcBuilder: registration.  The RpcModule keeps one callback per method  *)
(* name; a subscription occupies its subscribe and its unsubscribe method  *)
(* name, its notification name only labels the messages it sends.          *)
(***************************************************************************)
\* a registration that replaces the method table by the new method
register_async_method_replacing(ms, reg) ==
    IF reg.name \in ms
    THEN [err |-> TRUE, methods |-> ms]
    ELSE [err |-> FALSE, methods |-> {reg.name}]

\* RpcModule::register_async_method as called by RpcBuilder::query: an error
\* when the method name is already registered, else the new method table
register_async_method(ms, reg) ==
    IF reg.name \in ms
    THEN [err |-> TRUE, methods |-> ms]
    ELSE [err |-> FALSE, methods |-> ms \cup {reg.name}]

\* RpcModule::register_subscription as called by RpcBuilder::subscription
register_subscription(ms, reg) ==
    IF \/ reg.name = reg.unsubscribe_name
       \/ reg.name \in ms
       \/ reg.unsubscribe_name \in ms
    THEN [err |-> TRUE, methods |-> ms]
    ELSE [err |-> FALSE, methods |-> ms \cup {reg.name, reg.unsubscribe_name}]

\* RpcBuilder::query / RpcBuilder::subscription: the registration result
\* that the builder unwraps
Register(ms, reg) ==
    IF reg.kind = "query"
    THEN register_async_method(ms, reg)
    ELSE register_subscription(ms, reg)

(***************************************************************************)
(* Router.                                                                 *)
(***************************************************************************)
\* Router::new and Router::namespace
RouterInit ==
    /\ name \in Namespaces
    /\ handlers = <<>>
    /\ methods = {}
    /\ notifs = {}
    /\ build = "ok"
    /\ calls = <<>>
    /\ out = None
    /\ previous = None

\* a push at the front of the list
handlers_push_front(hs, h) == <<h>> \o hs

\* self.handlers.push(H::get_type)
handlers_push(hs, h) == Append(hs, h)

\* Router::handler: H::register on the builder (whose unwrap panics on a
\* registration error, unwinding the call), then the push of H::get_type
Handler(h) ==
    /\ build = "ok"
    /\ Len(handlers) < MaxHandlers
    /\ LET reg == HandlerRegistration(h)
           res == Register(methods, reg)
       IN IF res.err
          THEN /\ build' = "panicked"
               /\ UNCHANGED <<name, handlers, methods, notifs, calls, out, previous>>
          ELSE /\ methods' = res.methods
               /\ notifs' = IF reg.kind = "subscription"
                             THEN notifs \cup {reg.notification_name}
                             ELSE notifs
               /\ handlers' = handlers_push(handlers, h)
               /\ calls' = Append(calls, h)
               /\ out' = None
               /\ previous' = None
               /\ UNCHANGED <<name, build>>
    /\ UNCHANGED <<sessionVars, queryVars>>

\* a member without the space after the colon
Member_no_space(handler_type) ==
    handler_type.name \o <<":">> \o handler_type.signature

\* format!("{}: {}", handler_type.name, handler_type.signature)
Member(handler_type) ==
    handler_type.name \o <<":", " ">> \o handler_type.signature

\* the (handlers, dependencies) pair that get_type unzips
MemberList(hs) == [i \in 1..Len(hs) |-> Member(HandlerGetType(hs[i]))]

DependencyLists(hs) == [i \in 1..Len(hs) |-> HandlerGetType(hs[i]).dependencies]

\* format!("{{ {} }}", handlers.join(", "))
RouterType(hs) ==
    <<"{", " ">> \o Join(MemberList(hs), <<",", " ">>) \o <<" ", "}">>

\* an import line that leaves the module path as it is
ImportLine_untrimmed(dependency) ==
    <<"i", "m", "p", "o", "r", "t", " ", "t", "y", "p", "e", " ", "{", " ">>
    \o dependency.ts_name
    \o <<" ", "}", " ", "f", "r", "o", "m", " ", "\"", ".", "/">>
    \o dependency.exported_to
    \o <<"\"", ";">>

\* format!("import type {{ {} }} from \"./{}\";", ts_name, exported_to.trim_end_matches(".ts"))
ImportLine(dependency) ==
    <<"i", "m", "p", "o", "r", "t", " ", "t", "y", "p", "e", " ", "{", " ">>
    \o dependency.ts_name
    \o <<" ", "}", " ", "f", "r", "o", "m", " ", "\"", ".", "/">>
    \o trim_end_matches(dependency.exported_to, <<".", "t", "s">>)
    \o <<"\"", ";">>

\* the HashSet the import lines are collected into
ImportSet(hs) ==
    {ImportLine(d) : d \in Range(Flatten(DependencyLists(hs)))}

\* if let Some(name) = &self.name { format!("{{ {name}: {router_type} }}") }
Namespaced(n, router_type) ==
    IF n = None THEN router_type
    ELSE <<"{", " ">> \o n \o <<":", " ">> \o router_type \o <<" ", "}">>

\* format!("{}\ntype Router = {router_type};", dependencies.join("\n"))
TypeText(dependencies, router_type) ==
    Join(dependencies, <<"\n">>)
    \o <<"\n", "t", "y", "p", "e", " ", "R", "o", "u", "t", "e", "r", " ", "=", " ">>
    \o router_type \o <<";">>

\* Router::get_type
GetType ==
    /\ build = "ok"
    /\ \E dependencies \in IterationOrders(ImportSet(handlers)) :
           out' = TypeText(dependencies, Namespaced(name, RouterType(handlers)))
    /\ previous' = out
    /\ UNCHANGED <<name, handlers, methods, notifs, build, calls>>
    /\ UNCHANGED <<sessionVars, queryVars>>

(***************************************************************************)
(* The adapter installed by RpcBuilder::query, per incoming call.          *)
(***************************************************************************)
QueryHandlers == {"echo", "one", "null"}

\* the serde_json::Value a query handler's future produces for the parameters
HandlerResult(f, p) ==
    CASE f = "echo" -> p
      [] f = "one" -> "1"
      [] f = "null" -> "null"

\* the response the RpcModule sends for the unit value
UnitResponse == "null"

\* the value of the block `async move { handler(params).await; }`: the
\* statement ends with a semicolon, so the block evaluates to ()
AdapterOutput(handler_output) == UnitResponse

QueryIdle ==
    /\ query = [c \in Calls |-> "idle"]
    /\ procedure = [c \in Calls |-> None]
    /\ params = [c \in Calls |-> None]
    /\ result = [c \in Calls |-> None]
    /\ response = [c \in Calls |-> None]

\* the RpcModule invokes the registered closure: the handler is cloned and
\* the adapter's future is created
QueryCall(c, f, p) ==
    /\ query[c] = "idle"
    /\ query' = [query EXCEPT ![c] = "awaiting"]
    /\ procedure' = [procedure EXCEPT ![c] = f]
    /\ params' = [params EXCEPT ![c] = p]
    /\ UNCHANGED <<result, response>>
    /\ UNCHANGED <<routerVars, sessionVars>>

\* handler(params).await completes and the adapter's future returns
QueryAdapter(c) ==
    /\ query[c] = "awaiting"
    /\ LET handler_output == HandlerResult(procedure[c], params[c])
       IN /\ result' = [result EXCEPT ![c] = handler_output]
          /\ response' = [response EXCEPT ![c] = AdapterOutput(handler_output)]
    /\ query' = [query EXCEPT ![c] = "responded"]
    /\ UNCHANGED <<procedure, params>>
    /\ UNCHANGED <<routerVars, sessionVars>>

(***************************************************************************)
(* The callback installed by RpcBuilder::subscription, per subscribe call: *)
(* the callback's future and the delivery task it spawns.                  *)
(***************************************************************************)
SessionIdle ==
    /\ callback = [s \in Sessions |-> "idle"]
    /\ task = [s \in Sessions |-> "none"]
    /\ stream = [s \in Sessions |-> <<>>]
    /\ taken = [s \in Sessions |-> 0]
    /\ channel = [s \in Sessions |-> <<>>]
    /\ tx = [s \in Sessions |-> FALSE]
    /\ rx = [s \in Sessions |-> FALSE]
    /\ value = [s \in Sessions |-> None]
    /\ sent = [s \in Sessions |-> <<>>]
    /\ sink_open = [s \in Sessions |-> FALSE]

\* a subscribe call arrives: the RpcModule invokes the registered closure
\* with the pending subscription; vs is what handler(params) yields
Subscribe(s, vs) ==
    /\ callback[s] = "idle"
    /\ callback' = [callback EXCEPT ![s] = "accept"]
    /\ stream' = [stream EXCEPT ![s] = vs]
    /\ sink_open' = [sink_open EXCEPT ![s] = TRUE]
    /\ UNCHANGED <<task, taken, channel, tx, rx, value, sent>>
    /\ UNCHANGED <<routerVars, queryVars>>

\* the remote peer unsubscribes or the transport drops the subscription
CloseSink(s) ==
    /\ callback[s] # "idle"
    /\ sink_open[s]
    /\ sink_open' = [sink_open EXCEPT ![s] = FALSE]
    /\ UNCHANGED <<callback, task, stream, taken, channel, tx, rx, value, sent>>
    /\ UNCHANGED <<routerVars, queryVars>>

\* SubscriptionMessage::from_json(&value): a serde_json::Value always encodes
from_json_ok(v) == v \in JsonValues

\* the callback's future can take its next step: the call it awaits is ready
CallbackReady(s) ==
    \/ callback[s] = "accept"
    \/ callback[s] = "join" /\ task[s] \in {"done", "panicked"}
    \/ callback[s] = "produce"
         /\ (taken[s] = Len(stream[s]) \/ ~rx[s] \/ Len(channel[s]) < ChannelCapacity)

\* the position the callback moves to once the spawned task's JoinHandle is
\* ready: `tokio::spawn(..).await.unwrap()` precedes the for_each
AfterJoin(s) ==
    IF task[s] = "done" THEN "produce" ELSE "panicked"

\* one step of the callback's future, up to its next await
CallbackStep(s) ==
    /\ CallbackReady(s)
    /\ IF callback[s] = "accept"
       THEN \* subscription.accept().await.unwrap(), channel(10), tokio::spawn
            IF sink_open[s]
            THEN /\ callback' = [callback EXCEPT ![s] = "join"]
                 /\ task' = [task EXCEPT ![s] = "spawned"]
                 /\ tx' = [tx EXCEPT ![s] = TRUE]
                 /\ rx' = [rx EXCEPT ![s] = TRUE]
                 /\ UNCHANGED <<taken, channel>>
            ELSE /\ callback' = [callback EXCEPT ![s] = "panicked"]
                 /\ UNCHANGED <<task, tx, rx, taken, channel>>
       ELSE IF callback[s] = "join"
       THEN \* the JoinHandle's .await.unwrap()
            /\ callback' = [callback EXCEPT ![s] = AfterJoin(s)]
            /\ tx' = [tx EXCEPT ![s] = (AfterJoin(s) = "produce")]
            /\ UNCHANGED <<task, rx, taken, channel>>
       ELSE \* handler(params).for_each(|value| tx.send(value).map(unwrap)).await
            IF taken[s] = Len(stream[s])
            THEN /\ callback' = [callback EXCEPT ![s] = "done"]
                 /\ tx' = [tx EXCEPT ![s] = FALSE]
                 /\ UNCHANGED <<task, rx, taken, channel>>
            ELSE IF ~rx[s]
            THEN /\ callback' = [callback EXCEPT ![s] = "panicked"]
                 /\ tx' = [tx EXCEPT ![s] = FALSE]
                 /\ taken' = [taken EXCEPT ![s] = @ + 1]
                 /\ UNCHANGED <<task, rx, channel>>
            ELSE /\ channel' = [channel EXCEPT ![s] = Append(@, stream[s][taken[s] + 1])]
                 /\ taken' = [taken EXCEPT ![s] = @ + 1]
                 /\ UNCHANGED <<callback, task, tx, rx>>
    /\ UNCHANGED <<stream, value, sent, sink_open>>
    /\ UNCHANGED <<routerVars, queryVars>>

\* the delivery task can take its next step
TaskReady(s) ==
    \/ task[s] = "spawned"
    \/ task[s] = "recv" /\ (channel[s] # <<>> \/ ~tx[s])
    \/ task[s] = "send"

\* one step of the spawned task, up to its next await:
\*   while let Some(value) = rx.recv().await {
\*       subscription.send(SubscriptionMessage::from_json(&value).unwrap()).await.unwrap();
\*   }
TaskStep(s) ==
    /\ TaskReady(s)
    /\ IF task[s] = "send"
       THEN IF from_json_ok(value[s]) /\ sink_open[s]
            THEN /\ sent' = [sent EXCEPT ![s] = Append(@, value[s])]
                 /\ value' = [value EXCEPT ![s] = None]
                 /\ task' = [task EXCEPT ![s] = "recv"]
                 /\ UNCHANGED <<channel, rx>>
            ELSE /\ task' = [task EXCEPT ![s] = "panicked"]
                 /\ rx' = [rx EXCEPT ![s] = FALSE]
                 /\ value' = [value EXCEPT ![s] = None]
                 /\ UNCHANGED <<channel, sent>>
       ELSE \* rx.recv().await
            IF channel[s] # <<>>
            THEN /\ value' = [value EXCEPT ![s] = Head(channel[s])]
                 /\ channel' = [channel EXCEPT ![s] = Tail(@)]
                 /\ task' = [task EXCEPT ![s] = "send"]
                 /\ UNCHANGED <<rx, sent>>
            ELSE IF ~tx[s]
            THEN /\ task' = [task EXCEPT ![s] = "done"]
                 /\ rx' = [rx EXCEPT ![s] = FALSE]
                 /\ UNCHANGED <<channel, value, sent>>
            ELSE /\ task' = [task EXCEPT ![s] = "recv"]
                 /\ UNCHANGED <<channel, rx, value, sent>>
    /\ UNCHANGED <<callback, stream, taken, tx, sink_open>>
    /\ UNCHANGED <<routerVars, queryVars>>

(***************************************************************************)
(* Specifications.                                                         *)
(***************************************************************************)
\* a router on which nothing has been called
RouterIdle ==
    /\ name = None
    /\ handlers = <<>>
    /\ methods = {}
    /\ notifs = {}
    /\ build = "ok"
    /\ calls = <<>>
    /\ out = None
    /\ previous = None

\* the subscription sessions of a running service
Init == RouterIdle /\ SessionIdle /\ QueryIdle

Next ==
    \/ \E s \in Sessions, vs \in Streams : Subscribe(s, vs)
    \/ \E s \in Sessions : CloseSink(s)
    \/ \E s \in Sessions : CallbackStep(s)
    \/ \E s \in Sessions : TaskStep(s)

Spec == Init /\ [][Next]_vars

\* the tokio runtime polls every task that is ready
FairSpec ==
    /\ Spec
    /\ \A s \in Sessions : WF_vars(CallbackStep(s)) /\ WF_vars(TaskStep(s))

\* the query calls of a running service
QueryInit == RouterIdle /\ SessionIdle /\ QueryIdle

QueryNext ==
    \/ \E c \in Calls, f \in QueryHandlers, p \in JsonValues : QueryCall(c, f, p)
    \/ \E c \in Calls : QueryAdapter(c)

QuerySpec == QueryInit /\ [][QueryNext]_vars

\* the construction of a router and its type text
BuildInit == RouterInit /\ SessionIdle /\ QueryIdle

BuildNext ==
    \/ \E h \in Handlers : Handler(h)
    \/ GetType

BuildSpec == BuildInit /\ [][BuildNext]_vars

(***************************************************************************)
(* Properties of the subscription sessions.                                *)
(***************************************************************************)
Accepted(s) == callback[s] \in {"join", "produce", "done"}

\* The callback awaits the spawned task before it runs the handler, and the
\* task waits for a value the callback has not sent yet: no session ever
\* gets past the join, and no value is taken, buffered or sent.
ProductionNeverStarts ==
    \A s \in Sessions :
        /\ callback[s] \in {"idle", "accept", "join", "panicked"}
        /\ task[s] \in {"none", "spawned", "recv"}
        /\ taken[s] = 0 /\ channel[s] = <<>> /\ sent[s] = <<>>

\* C1: every accepted subscription whose sink stays open eventually has all
\* the values of its handler's stream delivered to the sink.
C1_AllValuesDelivered ==
    \A s \in Sessions :
        Accepted(s) ~> (sent[s] = stream[s] \/ ~sink_open[s])

\* C3: every accepted subscription (its stream is finite) eventually ends
\* cleanly: the channel is drained and closed, the delivery task has left
\* its loop and the callback has returned.
C3_SessionEndsCleanly ==
    \A s \in Sessions :
        Accepted(s) ~>
            \/ /\ callback[s] = "done" /\ task[s] = "done"
               /\ channel[s] = <<>> /\ ~tx[s] /\ ~rx[s]
            \/ ~sink_open[s]

\* C4: once the sink of an accepted subscription is closed, no further value
\* is taken from the stream, buffered in the channel or sent to the sink, and
\* the callback and the delivery task both eventually terminate.
C4_CancelStopsSession ==
    /\ [][\A s \in Sessions :
            (Accepted(s) /\ ~sink_open[s]) =>
                /\ taken'[s] = taken[s]
                /\ Len(channel'[s]) <= Len(channel[s])
                /\ sent'[s] = sent[s]]_vars
    /\ \A s \in Sessions :
           (Accepted(s) /\ ~sink_open[s]) ~>
               /\ callback[s] \in {"done", "panicked"}
               /\ task[s] \in {"done", "panicked"}

(***************************************************************************)
(* Properties of the query adapter.                                        *)
(***************************************************************************)
\* C6: the response to a query call is the value the handler produced for
\* the call's parameters.
C6_ResponseIsHandlerResult ==
    \A c \in Calls :
        query[c] = "responded" =>
            response[c] = HandlerResult(procedure[c], params[c])

(***************************************************************************)
(* Properties of the router.                                               *)
(***************************************************************************)
\* the names a registration uses
RegistrationNames(reg) ==
    IF reg.kind = "query" THEN {reg.name}
    ELSE {reg.name, reg.notification_name, reg.unsubscribe_name}

\* C7: a Router::handler call whose registration uses a name, notification
\* name or unsubscribe name that an earlier registration already uses panics
\* (no router is returned), and no call removes a registered name.
C7_DuplicateNameIsFatal ==
    [][\A h \in Handlers :
          Handler(h) =>
              /\ (RegistrationNames(HandlerRegistration(h)) \cap (methods \cup notifs) # {}
                     => build' = "panicked")
              /\ methods \subseteq methods'
              /\ notifs \subseteq notifs']_vars

\* the member `name: signature` of a handler type, from its descriptor
MemberOf(h) ==
    HandlerGetType(h).name \o <<":", " ">> \o HandlerGetType(h).signature

RECURSIVE CommaList(_)
\* the members of the handler types cs, in that order, separated by ", "
CommaList(cs) ==
    IF Len(cs) = 0 THEN <<>>
    ELSE LET front == SubSeq(cs, 1, Len(cs) - 1)
             last == MemberOf(cs[Len(cs)])
         IN IF Len(front) = 0 THEN last
            ELSE CommaList(front) \o <<",", " ">> \o last

\* the text between the innermost pair of braces of the type text
InnerBraces(text) ==
    LET opens == {i \in 1..Len(text) : text[i] = "{"}
        i == CHOOSE k \in opens : \A m \in opens : m <= k
        closes == {j \in (i + 1)..Len(text) : text[j] = "}"}
        j == CHOOSE k \in closes : \A m \in closes : k <= m
    IN SubSeq(text, i + 1, j - 1)

NoDependencies == \A i \in 1..Len(calls) : HandlerGetType(calls[i]).dependencies = <<>>

\* C9: for handlers without dependencies get_type returns exactly the
\* structural type, `{ m1, m2 }` or `{ ns: { m1, m2 } }`, and nothing else.
C9_OnlyStructuralType ==
    (out # None /\ NoDependencies) =>
        out = IF name = None
              THEN <<"{", " ">> \o CommaList(calls) \o <<" ", "}">>
              ELSE <<"{", " ">> \o name \o <<":", " ", "{", " ">>
                   \o CommaList(calls) \o <<" ", "}", " ", "}">>

RECURSIVE Lines(_)
\* the lines of a text: the pieces between its newline characters
Lines(text) ==
    LET breaks == {i \in 1..Len(text) : text[i] = "\n"}
    IN IF breaks = {} THEN <<text>>
       ELSE LET i == CHOOSE k \in breaks : \A m \in breaks : k <= m
            IN <<SubSeq(text, 1, i - 1)>> \o Lines(SubSeq(text, i + 1, Len(text)))

StartsWith(s, prefix) ==
    Len(s) >= Len(prefix) /\ SubSeq(s, 1, Len(prefix)) = prefix

\* C10: the text get_type returns is the import statements, one per line,
\* followed by the one line that declares the router type; without
\* dependencies it is that line alone.
C10_ImportsThenTypeLine ==
    out # None =>
        LET ls == Lines(out)
        IN /\ StartsWith(ls[Len(ls)],
                         <<"t", "y", "p", "e", " ", "R", "o", "u", "t", "e", "r", " ", "=", " ">>)
           /\ \A i \in 1..(Len(ls) - 1) :
                  StartsWith(ls[i], <<"i", "m", "p", "o", "r", "t", " ">>)
           /\ (NoDependencies => Len(ls) = 1)

\* the import lines of a text get_type returned, in the order of the text
ImportLinesOf(text) ==
    LET IsImport(l) == StartsWith(l, <<"i", "m", "p", "o", "r", "t", " ">>)
    IN SelectSeq(Lines(text), IsImport)

\* the dependencies the handler types of the calls declare
DeclaredDependencies ==
    UNION {Range(HandlerGetType(calls[i]).dependencies) : i \in 1..Len(calls)}

RECURSIVE ModuleOf(_)
\* a source module path without the ".ts" at its end
ModuleOf(path) ==
    LET n == Len(path)
    IN IF n >= 3 /\ path[n - 2] = "." /\ path[n - 1] = "t" /\ path[n] = "s"
       THEN ModuleOf(SubSeq(path, 1, n - 3))
       ELSE path

\* the import statement for an exported name and a module
ImportStatement(exported, module) ==
    <<"i", "m", "p", "o", "r", "t", " ", "t", "y", "p", "e", " ", "{", " ">>
    \o exported \o <<" ", "}", " ", "f", "r", "o", "m", " ", "\"", ".", "/">>
    \o module \o <<"\"", ";">>

NoRepeatedLine(ls) ==
    \A i, j \in 1..Len(ls) : ls[i] = ls[j] => i = j

\* C11 as stated: there is exactly one import line per distinct dependency
\* {exported name, source module path} that the handlers declare.
C11_OneLinePerDependency ==
    out # None =>
        /\ NoRepeatedLine(ImportLinesOf(out))
        /\ Len(ImportLinesOf(out)) = Cardinality(DeclaredDependencies)

\* C11 as amended: there is exactly one import line per distinct pair of
\* exported name and source module path with the ".ts" at its end removed:
\* no line is repeated, and the lines are the import statements of those pairs.
C11_OneLinePerImportStatement ==
    out # None =>
        LET pairs == {<<d.ts_name, ModuleOf(d.exported_to)>> : d \in DeclaredDependencies}
        IN /\ NoRepeatedLine(ImportLinesOf(out))
           /\ Len(ImportLinesOf(out)) = Cardinality(pairs)
           /\ Range(ImportLinesOf(out)) = {ImportStatement(pr[1], pr[2]) : pr \in pairs}

\* C11 witness: two handlers declare the identical dependency and one of them
\* a second one of another exported name: get_type returned two import lines
C11_Witness ==
    /\ out # None
    /\ calls = <<"h2", "h3">>
    /\ Len(ImportLinesOf(out)) = 2

\* the line of a text get_type returned that declares the router type
TypeLineOf(text) == Lines(text)[Len(Lines(text))]

RouterTypeOf(text) ==
    LET l == TypeLineOf(text)
    IN SubSeq(l, 15, Len(l) - 1)

TwoTestHandlers ==
    /\ out # None
    /\ calls = <<"sample_handler", "another_handler">>

\* the router type of the two handlers when another_handler's signature is sig
TwoHandlerType(sig) ==
    LET members == <<"{", " ">> \o sample_handler_name \o <<":", " ">> \o signature_void
                   \o <<",", " ">> \o another_handler_name \o <<":", " ">> \o sig
                   \o <<" ", "}">>
    IN IF name = None THEN members
       ELSE <<"{", " ", "n", "s", ":", " ">> \o members \o <<" ", "}">>

MethodNames(reg) ==
    IF reg.kind = "query" THEN {reg.name} ELSE {reg.name, reg.unsubscribe_name}

\* C16: the router records one provider per Router::handler call that
\* returned; every such call appends its handler's provider at the end, adds
\* its handler's procedures to the builder and leaves every earlier provider
\* and procedure in place; the namespace never changes.
C16_RegistrationIsAdditive ==
    /\ [](Len(handlers) = Len(calls))
    /\ [][/\ name' = name
          /\ methods \subseteq methods'
          /\ Len(handlers') >= Len(handlers)
          /\ SubSeq(handlers', 1, Len(handlers)) = handlers
          /\ Len(calls') > Len(calls) =>
                LET h == calls'[Len(calls')]
                IN /\ Len(handlers') = Len(handlers) + 1
                   /\ handlers'[Len(handlers')] = h
                   /\ methods' = methods \cup MethodNames(HandlerRegistration(h))
                   /\ methods' # methods]_vars

\* C16 witness: three calls have returned, a subscription among them, and
\* the builder holds the procedures of all three
C16_Witness ==
    /\ calls = <<"h1", "h3", "h2">>
    /\ handlers = calls
    /\ methods = {"f", "k", "g", "u"}

====
